---- MODULE Spec2Model ----
(***************************************************************************)
(* Rule-based discrete HVAC controller (rule_based.py) and its driver      *)
(* loop (main.py).                                                         *)
(*                                                                         *)
(* Reals are represented in hundredths: 19.0 degrees is 1900, the fan flag *)
(* 1.0 is 100, the window-fan speed 0.75 is 75.  CO2 is in whole ppm.      *)
(* Every float the program computes on the modelled inputs is a multiple   *)
(* of 0.01 that the hundredths represent exactly, and the comparisons act  *)
(* makes are between such values.                                          *)
(***************************************************************************)
EXTENDS Integers, Sequences, FiniteSets

(* ----- bounds of the model ----- *)
MaxPatience == 3

(* ----- observations the environment is sampled at ----- *)
Months == {1, 3, 4, 7}
AirTemps == {1900, 1950, 2300, 2350, 2650, 3000}
AirCO2s == {500, 800, 801, 1000, 1200, 1300}

(* ----- rule_based.py: the tables ----- *)
(* a table is the sequence of its rows; row k of the Python list is At(table, k) *)
At(table, k) == table[k + 1]

DISCRETE_ACTIONS == <<
    <<2100, 2200, 100, 0>>,
    <<2100, 2200, 100, 50>>,
    <<2100, 2200, 100, 75>>,
    <<2100, 2200, 100, 100>>,
    <<2200, 2300, 100, 0>>,
    <<2200, 2300, 100, 50>>,
    <<2200, 2300, 100, 75>>,
    <<2200, 2300, 100, 100>>,
    <<2300, 2400, 100, 0>>,
    <<2300, 2400, 100, 50>>,
    <<2300, 2400, 100, 75>>,
    <<2300, 2400, 100, 100>>,
    <<2400, 2500, 100, 0>>,
    <<2400, 2500, 100, 50>>,
    <<2400, 2500, 100, 75>>,
    <<2400, 2500, 100, 100>>,
    <<2500, 2600, 100, 0>>,
    <<2500, 2600, 100, 50>>,
    <<2500, 2600, 100, 75>>,
    <<2500, 2600, 100, 100>>,
    <<2600, 2700, 100, 0>>,
    <<2600, 2700, 100, 50>>,
    <<2600, 2700, 100, 75>>,
    <<2600, 2700, 100, 100>>,
    <<2700, 2800, 100, 0>>,
    <<2700, 2800, 100, 50>>,
    <<2700, 2800, 100, 75>>,
    <<2700, 2800, 100, 100>>,
    <<2800, 2900, 100, 0>>,
    <<2800, 2900, 100, 50>>,
    <<2800, 2900, 100, 75>>,
    <<2800, 2900, 100, 100>>,
    <<2900, 3000, 100, 0>>,
    <<2900, 3000, 100, 50>>,
    <<2900, 3000, 100, 75>>,
    <<2900, 3000, 100, 100>>,
    <<500, 5000, 0, 0>>,
    <<500, 5000, 0, 50>>,
    <<500, 5000, 0, 75>>,
    <<500, 5000, 0, 100>> >>

DISCRETE_ACTIONS_TEMP == <<
    <<500, 5000>>,
    <<2100, 2200>>,
    <<2200, 2300>>,
    <<2300, 2400>>,
    <<2400, 2500>>,
    <<2500, 2600>>,
    <<2600, 2700>>,
    <<2700, 2800>>,
    <<2800, 2900>>,
    <<2900, 3000>> >>

DISCRETE_ACTIONS_CO2 == <<0, 50, 75, 100>>

TEMP_THRESHOLD == 1

len(table) == Len(table)

(* ----- rule_based.py: numpy and builtin helpers ----- *)
max(a, b) == IF a >= b THEN a ELSE b

min(a, b) == IF a <= b THEN a ELSE b

abs(a) == IF a >= 0 THEN a ELSE -a

np_clip(x, lo, hi) == min(max(x, lo), hi)

(* floor to a whole number of degrees, in hundredths *)
np_floor(x) == (x \div 100) * 100

(* the (0-based) index of the first occurrence of the least element of    *)
(* the sequence d                                                          *)
np_argmin(d) ==
    CHOOSE k \in 0..(Len(d) - 1) :
        \A j \in 0..(Len(d) - 1) :
            \/ At(d, k) < At(d, j)
            \/ At(d, k) = At(d, j) /\ k <= j

(* square of the Euclidean norm of u - v, for rows of two and of four      *)
(* columns; the norm orders rows as its square does                        *)
Sq(x) == x * x

SqNorm2(u, v) == Sq(u[1] - v[1]) + Sq(u[2] - v[2])

SqNorm4(u, v) ==
    Sq(u[1] - v[1]) + Sq(u[2] - v[2]) + Sq(u[3] - v[3]) + Sq(u[4] - v[4])

(* ----- rule_based.py: RuleBasedControllerDiscrete ----- *)
winter_months == {11, 12, 1, 2, 3}

temp_margin == 50

_get_comfort_range(month) ==
    IF month \in winter_months
    THEN <<2000, 2300>>
    ELSE <<2300, 2600>>

(* variant: the first band takes 800 in *)
_decide_window_fan_speed_Inclusive800(co2) ==
    IF co2 <= 800 THEN 0
    ELSE IF co2 < 1000 THEN 50
    ELSE IF co2 < 1200 THEN 75
    ELSE 100

_decide_window_fan_speed(co2) ==
    IF co2 < 800 THEN 0
    ELSE IF co2 < 1000 THEN 50
    ELSE IF co2 < 1200 THEN 75
    ELSE 100

(* variant: the distance is taken over the two setpoints only *)
_find_best_action_index_SetpointsOnly(desired_action) ==
    np_argmin([k \in 1..Len(DISCRETE_ACTIONS) |->
                  SqNorm2(DISCRETE_ACTIONS[k], desired_action)])

_find_best_action_index(desired_action) ==
    np_argmin([k \in 1..Len(DISCRETE_ACTIONS) |->
                  SqNorm4(DISCRETE_ACTIONS[k], desired_action)])

_find_best_action_index_temp(desired_temp_pair) ==
    np_argmin([k \in 1..Len(DISCRETE_ACTIONS_TEMP) |->
                  SqNorm2(DISCRETE_ACTIONS_TEMP[k], desired_temp_pair)])

_find_best_action_index_co2(desired_wf_speed) ==
    np_argmin([k \in 1..Len(DISCRETE_ACTIONS_CO2) |->
                  abs(DISCRETE_ACTIONS_CO2[k] - desired_wf_speed)])

(* variant: the counter decays by one instead of being reset *)
UpdateTempPatience_Decay(air_temp_, t_low, t_high, temp_patience_) ==
    IF air_temp_ > t_high \/ air_temp_ < t_low
    THEN temp_patience_ + 1
    ELSE temp_patience_ - 1

(* lines 163-167 *)
UpdateTempPatience(air_temp_, t_low, t_high, temp_patience_) ==
    IF air_temp_ > t_high \/ air_temp_ < t_low
    THEN temp_patience_ + 1
    ELSE 0

(* variant: a reading of exactly 800 counts as elevated *)
UpdateCo2Patience_Inclusive800(air_co2_, co2_patience_) ==
    IF air_co2_ >= 800
    THEN co2_patience_ + 1
    ELSE 0

(* lines 169-172 *)
UpdateCo2Patience(air_co2_, co2_patience_) ==
    IF air_co2_ > 800
    THEN co2_patience_ + 1
    ELSE 0

(* lines 174-180 *)
AcOn(air_temp_, t_low, t_high) ==
    IF air_temp_ > t_high THEN TRUE
    ELSE IF air_temp_ < t_low THEN TRUE
    ELSE FALSE

(* variant: the target is rounded up instead of down *)
BaseSetpoints_Ceil(ac_on_, target_temp) ==
    IF ~ac_on_
    THEN <<500, 5000, 0>>
    ELSE LET heating_sp == np_clip(np_floor(target_temp + 99), 2100, 2900)
             cooling_sp == np_clip(heating_sp + 100, 2200, 3000)
         IN  <<heating_sp, cooling_sp, 100>>

(* lines 185-195: <<heating_sp, cooling_sp, fan_speed>> *)
BaseSetpoints(ac_on_, target_temp) ==
    IF ~ac_on_
    THEN <<500, 5000, 0>>
    ELSE LET heating_sp == np_clip(np_floor(target_temp), 2100, 2900)
             cooling_sp == np_clip(heating_sp + 100, 2200, 3000)
         IN  <<heating_sp, cooling_sp, 100>>

(* variant: the patience residual is not applied *)
TempIndex_NoEscalation(ac_on_, air_temp_, t_low, t_high, base_idx, residual) ==
    LET temp_index_ == IF ~ac_on_ THEN 0 ELSE base_idx
    IN  max(0, min(temp_index_, len(DISCRETE_ACTIONS_TEMP) - 1))

(* variant: too hot escalates the same way as too cold *)
TempIndex_HotUp(ac_on_, air_temp_, t_low, t_high, base_temp_idx, residual) ==
    LET temp_index_ ==
            IF ~ac_on_
            THEN 0
            ELSE IF air_temp_ > t_high \/ air_temp_ < t_low
                 THEN min(base_temp_idx + residual,
                          len(DISCRETE_ACTIONS_TEMP) - 1)
                 ELSE base_temp_idx
    IN  max(0, min(temp_index_, len(DISCRETE_ACTIONS_TEMP) - 1))

(* lines 204-220 *)
TempIndex(ac_on_, air_temp_, t_low, t_high, base_temp_idx, residual) ==
    LET temp_index_ ==
            IF ~ac_on_
            THEN 0
            ELSE IF air_temp_ > t_high
                 THEN max(base_temp_idx - residual, 1)
                 ELSE IF air_temp_ < t_low
                      THEN min(base_temp_idx + residual,
                               len(DISCRETE_ACTIONS_TEMP) - 1)
                      ELSE base_temp_idx
    IN  max(0, min(temp_index_, len(DISCRETE_ACTIONS_TEMP) - 1))

(* variant: the residual is subtracted *)
Co2Index_Down(base_co2_idx, residual) ==
    LET co2_index_ == min(base_co2_idx - residual,
                          len(DISCRETE_ACTIONS_CO2) - 1)
    IN  max(0, min(co2_index_, len(DISCRETE_ACTIONS_CO2) - 1))

(* lines 222-227 *)
Co2Index(base_co2_idx, residual) ==
    LET co2_index_ == min(base_co2_idx + residual,
                          len(DISCRETE_ACTIONS_CO2) - 1)
    IN  max(0, min(co2_index_, len(DISCRETE_ACTIONS_CO2) - 1))

(* act(obs, temp_patience, co2_patience) with obs[0], obs[7], obs[10]      *)
(* given as month_, air_temp_, air_co2_; the result carries the returned   *)
(* triple and the locals the properties below speak of                     *)
act(month_, air_temp_, air_co2_, temp_patience_, co2_patience_) ==
    LET range == _get_comfort_range(month_)
        t_low == range[1]
        t_high == range[2]
        target_temp == (t_low + t_high) \div 2
        new_temp_patience ==
            UpdateTempPatience(air_temp_, t_low, t_high, temp_patience_)
        new_co2_patience == UpdateCo2Patience(air_co2_, co2_patience_)
        ac_on_ == AcOn(air_temp_, t_low, t_high)
        wf_speed == _decide_window_fan_speed(air_co2_)
        base == BaseSetpoints(ac_on_, target_temp)
        base_temp_idx == _find_best_action_index_temp(<<base[1], base[2]>>)
        base_co2_idx == _find_best_action_index_co2(wf_speed)
        temp_patience_residual == new_temp_patience \div TEMP_THRESHOLD
        co2_patience_residual == new_co2_patience \div TEMP_THRESHOLD
        temp_index_ == TempIndex(ac_on_, air_temp_, t_low, t_high,
                                 base_temp_idx, temp_patience_residual)
        co2_index_ == Co2Index(base_co2_idx, co2_patience_residual)
        desired == <<At(DISCRETE_ACTIONS_TEMP, temp_index_)[1],
                     At(DISCRETE_ACTIONS_TEMP, temp_index_)[2],
                     base[3],
                     At(DISCRETE_ACTIONS_CO2, co2_index_)>>
        found == _find_best_action_index(desired)
        over == found >= len(DISCRETE_ACTIONS)
    IN  [action_idx |-> IF over THEN len(DISCRETE_ACTIONS) - 1 ELSE found,
         temp_patience |-> new_temp_patience,
         co2_patience |-> new_co2_patience,
         ac_on |-> ac_on_,
         base_temp_idx |-> base_temp_idx,
         base_co2_idx |-> base_co2_idx,
         temp_index |-> temp_index_,
         co2_index |-> co2_index_,
         desired_action |-> desired,
         clamped |-> over]

(* ----- state ----- *)
VARIABLES
    pc,              \* "start", "called"; in the driver "loop", "TypeError", "done"
    month,           \* int(obs[0]) of the last call of act
    air_temp,        \* obs[7] of the last call
    air_co2,         \* obs[10] of the last call
    temp_patience,   \* counter held by the caller between calls
    co2_patience,    \* counter held by the caller between calls
    ac_on,           \* locals of the last call
    base_temp_idx,
    temp_index,
    co2_index,
    desired_action,
    clamped,
    action_idx,      \* index returned by the last call
    temp_run,        \* history: consecutive calls with the temperature out of band
    co2_run,         \* history: consecutive calls with CO2 above 800
    hot_run,         \* history: consecutive calls with the temperature above high
    observation,     \* main.py: observation
    i,               \* main.py: loop variable
    action           \* main.py: action, as handed to env.step

ctl == <<month, air_temp, air_co2, temp_patience, co2_patience, ac_on,
         base_temp_idx, temp_index, co2_index, desired_action, clamped,
         action_idx>>

hist == <<temp_run, co2_run, hot_run>>

drv == <<observation, i, action>>

vars == <<pc, ctl, hist, drv>>

NoCallYet ==
    /\ month = 0
    /\ air_temp = 0
    /\ air_co2 = 0
    /\ ac_on = FALSE
    /\ base_temp_idx = 0
    /\ temp_index = 0
    /\ co2_index = 0
    /\ desired_action = <<>>
    /\ clamped = FALSE
    /\ action_idx = -1
    /\ temp_run = 0
    /\ co2_run = 0
    /\ hot_run = 0

(* ----- the caller the docstring of act describes: the counters start  *)
(* at 0 and the counters one call returns are passed to the next ----- *)
Init ==
    /\ pc = "start"
    /\ temp_patience = 0
    /\ co2_patience = 0
    /\ NoCallYet
    /\ observation = <<>>
    /\ i = 0
    /\ action = <<>>

Store(m, t, c, r) ==
    /\ month' = m
    /\ air_temp' = t
    /\ air_co2' = c
    /\ temp_patience' = r.temp_patience
    /\ co2_patience' = r.co2_patience
    /\ ac_on' = r.ac_on
    /\ base_temp_idx' = r.base_temp_idx
    /\ temp_index' = r.temp_index
    /\ co2_index' = r.co2_index
    /\ desired_action' = r.desired_action
    /\ clamped' = r.clamped
    /\ action_idx' = r.action_idx
    /\ LET range == _get_comfort_range(m)
       IN  /\ temp_run' = IF t < range[1] \/ t > range[2]
                          THEN temp_run + 1 ELSE 0
           /\ hot_run' = IF t > range[2] THEN hot_run + 1 ELSE 0
    /\ co2_run' = IF c > 800 THEN co2_run + 1 ELSE 0

ThreadedCall(m, t, c) ==
    /\ pc \in {"start", "called"}
    /\ \E r \in {act(m, t, c, temp_patience, co2_patience)} :
           /\ r.temp_patience <= MaxPatience
           /\ r.co2_patience <= MaxPatience
           /\ Store(m, t, c, r)
    /\ pc' = "called"
    /\ UNCHANGED drv

Next == \E m \in Months, t \in AirTemps, c \in AirCO2s : ThreadedCall(m, t, c)

Spec == Init /\ [][Next]_vars

(* ----- main.py: the driver loop ----- *)
(* the parameters of act after self (rule_based.py line 144) *)
ActParams == <<"obs", "temp_patience", "co2_patience">>

(* the arguments of the call controller.act(observation) (main.py line 65) *)
MainCallArgs == <<observation>>

(* a Python call binds when it supplies every parameter, none of which has *)
(* a default, and no more; otherwise it raises TypeError                   *)
CallBinds(params, args) == Len(args) = Len(params)

(* state after env.reset() and RuleBasedControllerDiscrete() *)
MainInit ==
    /\ pc = "loop"
    /\ temp_patience = 0
    /\ co2_patience = 0
    /\ NoCallYet
    /\ observation \in Months \X AirTemps \X AirCO2s
    /\ i = 0
    /\ action = <<>>

(* one pass through `for i in range(100)`, or the exit from the loop *)
MainLoop ==
    /\ pc = "loop"
    /\ IF i >= 100
       THEN /\ pc' = "done"
            /\ UNCHANGED <<ctl, hist, drv>>
       ELSE IF ~CallBinds(ActParams, MainCallArgs)
            THEN /\ pc' = "TypeError"
                 /\ UNCHANGED <<ctl, hist, drv>>
            ELSE \E r \in {act(MainCallArgs[1][1], MainCallArgs[1][2],
                               MainCallArgs[1][3], MainCallArgs[2],
                               MainCallArgs[3])} :
                     /\ Store(MainCallArgs[1][1], MainCallArgs[1][2],
                              MainCallArgs[1][3], r)
                     /\ action' = <<r.action_idx, r.temp_patience,
                                    r.co2_patience>>
                     /\ observation' \in Months \X AirTemps \X AirCO2s
                     /\ i' = i + 1
                     /\ pc' = "loop"

MainNext == MainLoop

SpecMain == MainInit /\ [][MainNext]_vars

(* ======================= properties ======================= *)
Called == pc = "called"

Low == _get_comfort_range(month)[1]

High == _get_comfort_range(month)[2]

OutOfBand == air_temp < Low \/ air_temp > High

TooHot == air_temp > High

Returned == At(DISCRETE_ACTIONS, action_idx)

(* the band of a CO2 reading: 0 below 800, 1 in [800,1000), 2 in           *)
(* [1000,1200), 3 from 1200 on                                             *)
Band(co2) == IF co2 < 800 THEN 0
             ELSE IF co2 < 1000 THEN 1
             ELSE IF co2 < 1200 THEN 2
             ELSE 3

(* C1: every call of act returns an action index in 0..39 and two          *)
(* non-negative counters, whatever the observation and the counters        *)
(* threaded in from the calls before.                                      *)
C1_ResultInRange ==
    Called => /\ action_idx \in 0..39
              /\ temp_patience \in Nat
              /\ co2_patience \in Nat

C1_Witness ==
    /\ Called
    /\ action_idx = 39
    /\ temp_patience = 0
    /\ co2_patience >= 2

(* C2: in every call the returned temp_patience is the incoming one plus 1 *)
(* when the air temperature is outside [low, high] and 0 otherwise, the    *)
(* returned co2_patience is the incoming one plus 1 when CO2 is above 800  *)
(* and 0 otherwise; so each counter is the length of the current run of    *)
(* consecutive triggering calls.                                           *)
C2_PatienceStep ==
    [][ /\ temp_patience' = IF OutOfBand' THEN temp_patience + 1 ELSE 0
        /\ co2_patience' = IF air_co2' > 800 THEN co2_patience + 1 ELSE 0
        /\ temp_patience' = temp_run'
        /\ co2_patience' = co2_run' ]_vars

C2_Witness ==
    /\ Called
    /\ air_co2 = 800
    /\ co2_patience = 0
    /\ OutOfBand
    /\ temp_patience = 3

(* C3 as stated: from counters 0, month 1, air temperature 19.0 and CO2    *)
(* 500 give action index 0, the row [21, 22, 1.0, 0.0].                    *)
C3_ScenarioA_Stated ==
    [][ (/\ temp_patience = 0
         /\ co2_patience = 0
         /\ month' = 1
         /\ air_temp' = 1900
         /\ air_co2' = 500)
        => (action_idx' = 0 /\ Returned' = <<2100, 2200, 100, 0>>) ]_vars

(* C3 amended: from counters 0, month 1, air temperature 19.0 and CO2 500  *)
(* give action index 4, the row [22, 23, 1.0, 0.0], because the counter is *)
(* incremented to 1 before it moves the temperature index up from 1 to 2.  *)
C3_ScenarioA ==
    [][ (/\ temp_patience = 0
         /\ co2_patience = 0
         /\ month' = 1
         /\ air_temp' = 1900
         /\ air_co2' = 500)
        => (/\ action_idx' = 4
            /\ Returned' = <<2200, 2300, 100, 0>>
            /\ temp_patience' = 1
            /\ co2_patience' = 0) ]_vars

C3_Witness ==
    /\ Called
    /\ month = 1
    /\ air_temp = 1900
    /\ air_co2 = 500
    /\ temp_patience = 1
    /\ action_idx = 4

(* C4 as stated: from counters 0, month 7, air temperature 30.0 and CO2    *)
(* 1300 give action index 15, the row [24, 25, 1.0, 1.0].                  *)
C4_ScenarioB_Stated ==
    [][ (/\ temp_patience = 0
         /\ co2_patience = 0
         /\ month' = 7
         /\ air_temp' = 3000
         /\ air_co2' = 1300)
        => (action_idx' = 15 /\ Returned' = <<2400, 2500, 100, 100>>) ]_vars

(* C4 amended: from counters 0, month 7, air temperature 30.0 and CO2 1300 *)
(* give action index 11, the row [23, 24, 1.0, 1.0], because the counter   *)
(* is incremented to 1 before it moves the temperature index down from 4   *)
(* to 3.                                                                   *)
C4_ScenarioB ==
    [][ (/\ temp_patience = 0
         /\ co2_patience = 0
         /\ month' = 7
         /\ air_temp' = 3000
         /\ air_co2' = 1300)
        => (/\ action_idx' = 11
            /\ Returned' = <<2300, 2400, 100, 100>>
            /\ temp_patience' = 1
            /\ co2_patience' = 1) ]_vars

C4_Witness ==
    /\ Called
    /\ month = 7
    /\ air_temp = 3000
    /\ air_co2 = 1300
    /\ temp_patience = 1
    /\ co2_patience = 1
    /\ action_idx = 11

(* C5: with temp_margin m, climate control is active iff the air           *)
(* temperature is above high + m or below low - m; at low - m, at high + m *)
(* and between the comfort bound and the margin it is inactive and act     *)
(* returns an off-like action (setpoints 5/50, fan flag 0).                *)
ActiveByMargin ==
    air_temp > High + temp_margin \/ air_temp < Low - temp_margin

C5_MarginActivation ==
    Called => /\ ac_on <=> ActiveByMargin
              /\ ~ActiveByMargin => /\ action_idx \in 36..39
                                    /\ Returned[1] = 500
                                    /\ Returned[2] = 5000
                                    /\ Returned[3] = 0

(* C6 as stated: three consecutive too-hot calls from temp_patience 0      *)
(* leave temp_patience at 3 and the temperature index at                   *)
(* max(base - 3, 1); while too hot the index is                            *)
(* max(base - temp_patience // TEMP_THRESHOLD, 1), is never 0, and never   *)
(* rises from one too-hot call to the next too-hot call.                   *)
C6_ThreeHotCalls ==
    (hot_run = 3 /\ temp_run = 3 /\ month \notin winter_months
        /\ air_temp = 3000)
    => (temp_patience = 3 /\ temp_index = max(base_temp_idx - 3, 1))

C6_HotIndex ==
    (Called /\ TooHot)
    => /\ temp_index =
              max(base_temp_idx - (temp_patience \div TEMP_THRESHOLD), 1)
       /\ temp_index # 0

C6_HotEscalation_Stated ==
    /\ [](C6_ThreeHotCalls /\ C6_HotIndex)
    /\ [][ (Called /\ TooHot /\ TooHot' /\ hot_run' = hot_run + 1)
           => temp_index' <= temp_index ]_vars

(* C6 amended: as stated, except that the index never rises from one       *)
(* too-hot call to the next too-hot call when both calls fall in the same  *)
(* season (the same comfort band); across a change of season the base      *)
(* index changes and the index can rise.                                   *)
C6_HotEscalation ==
    /\ [](C6_ThreeHotCalls /\ C6_HotIndex)
    /\ [][ (/\ Called /\ TooHot /\ TooHot' /\ hot_run' = hot_run + 1
            /\ _get_comfort_range(month') = _get_comfort_range(month))
           => temp_index' <= temp_index ]_vars

C6_Witness ==
    /\ Called
    /\ month = 7
    /\ air_temp = 3000
    /\ hot_run = 3
    /\ temp_run = 3
    /\ temp_patience = 3
    /\ base_temp_idx = 4
    /\ temp_index = 1

(* C7: from one call to the next, when the CO2 reading does not decrease   *)
(* and co2_patience is non-zero and does not decrease, the CO2 index and   *)
(* the window-fan speed of the returned action do not decrease.            *)
C7_Co2IndexMonotone ==
    [][ (/\ Called
         /\ air_co2' >= air_co2
         /\ co2_patience >= 1
         /\ co2_patience' >= co2_patience)
        => (co2_index' >= co2_index /\ Returned'[4] >= Returned[4]) ]_vars

C7_Witness ==
    /\ Called
    /\ air_co2 = 801
    /\ co2_run = 2
    /\ co2_patience = 2
    /\ co2_index = 3
    /\ Returned[4] = 100

(* C8: every iteration of the driver loop obtains a decision from act      *)
(* without an error, hands env.step a single integer in 0..39, and feeds   *)
(* the counters one decision returns to the next.                          *)
C8_DriverDecides ==
    /\ pc # "TypeError"
    /\ i > 0 => action \in 0..39

(* C9 as stated: the window-fan speed of the returned action is            *)
(* DISCRETE_ACTIONS_CO2[min(b + p, 3)] with b the band of the reading and  *)
(* p the updated co2_patience // TEMP_THRESHOLD; it is never below the     *)
(* rule's speed, it is non-decreasing in CO2 for a fixed incoming counter, *)
(* and it equals the rule's speed exactly when CO2 <= 800.                 *)
(* the speed a next call would return for the reading co2, the counters    *)
(* being the ones now held                                                 *)
NextWfSpeed(co2) ==
    At(DISCRETE_ACTIONS,
       act(month, air_temp, co2, temp_patience, co2_patience).action_idx)[4]

C9_WfSpeed ==
    /\ Called =>
          /\ Returned[4] =
                 At(DISCRETE_ACTIONS_CO2,
                    min(Band(air_co2) + (co2_patience \div TEMP_THRESHOLD), 3))
          /\ Returned[4] >= _decide_window_fan_speed(air_co2)
    /\ \A speeds \in {[c \in AirCO2s |-> NextWfSpeed(c)]} :
          \A c1 \in AirCO2s, c2 \in AirCO2s :
              c1 <= c2 => speeds[c1] <= speeds[c2]

C9_WindowFan_Stated ==
    /\ C9_WfSpeed
    /\ Called =>
          (Returned[4] = _decide_window_fan_speed(air_co2) <=> air_co2 <= 800)

(* C9 amended: as stated, except that the speed equals the rule's speed    *)
(* exactly when CO2 <= 800 or CO2 >= 1200; from 1200 on the rule already   *)
(* gives the top speed 1.0 and the escalation saturates.                   *)
C9_WindowFan ==
    /\ C9_WfSpeed
    /\ Called =>
          (Returned[4] = _decide_window_fan_speed(air_co2)
              <=> (air_co2 <= 800 \/ air_co2 >= 1200))

C9_Witness ==
    /\ Called
    /\ air_co2 = 1200
    /\ co2_patience = 2
    /\ Returned[4] = 100
    /\ _decide_window_fan_speed(air_co2) = 100

(* C10: the desired vector handed to the final quantizer is a row of the   *)
(* table and the quantizer returns that row; inside [low, high] the        *)
(* temperature index is 0 and the result 36 + co2_index, outside it the    *)
(* temperature index is in 1..9 and the result 4*(temp_index-1)+co2_index; *)
(* an action 36..39 is returned iff the temperature is inside the band,    *)
(* and the clamp to 39 is never taken.                                     *)
C10_ExactRow ==
    Called =>
        /\ \E k \in 0..39 : At(DISCRETE_ACTIONS, k) = desired_action
        /\ Returned = desired_action
        /\ ~OutOfBand => /\ temp_index = 0
                         /\ action_idx = 36 + co2_index
                         /\ Returned[1] = 500
                         /\ Returned[2] = 5000
                         /\ Returned[3] = 0
        /\ OutOfBand => /\ temp_index \in 1..9
                        /\ action_idx = 4 * (temp_index - 1) + co2_index
                        /\ Returned[3] = 100
        /\ action_idx \in 36..39 <=> ~OutOfBand
        /\ ~clamped

C10_Witness ==
    /\ Called
    /\ ~OutOfBand
    /\ temp_patience = 0
    /\ temp_run = 0
    /\ co2_index = 3
    /\ action_idx = 39

====
